---- MODULE Spec2Model ----
(***************************************************************************)
(* Model of app/core/gugik_client.py (class GugikHttpClient):              *)
(*   get_request        - GET with retry on connection errors              *)
(*   download_file      - streamed download into dest_folder/file_name     *)
(*   _generate_filename - URL -> file name rules                           *)
(*   _is_internet_connected, _cleanup_file                                 *)
(*                                                                         *)
(* Strings are sequences of tokens.  A URL is the sequence of its          *)
(* '/'-delimited segments, each segment a sequence of tokens; the rule     *)
(* substrings of _generate_filename ("PRG", "bdot10k", ...) and the        *)
(* characters "?" and "=" are tokens of their own.  The Polish messages    *)
(* of the source are written without diacritics.                           *)
(***************************************************************************)
EXTENDS Integers, Sequences, FiniteSets, TLC

\* ------------------------------------------------------------------------
\* Bounds of the model
\* ------------------------------------------------------------------------
MaxAttemptsArg == 3     \* get_request is called with max_attempts in 0..MaxAttemptsArg
MaxChunks == 2          \* a response body is delivered in at most MaxChunks chunks
MaxSegments == 9        \* URLs given to _generate_filename have 1..MaxSegments segments
MaxSpecial == 2         \* ... at most MaxSpecial segments with a query or an '='
MaxKeywords == 2        \* ... and at most MaxKeywords rule substrings
MaxLayers == 2          \* a capability document has at most MaxLayers Layer elements
MaxNames == 2           \* ... each with at most MaxNames Name children
MaxLongChunks == 1300   \* the long download is followed for MaxLongChunks chunks

\* ------------------------------------------------------------------------
\* User-facing messages (the fixed set of reasons)
\* ------------------------------------------------------------------------
MSG_INTERRUPTED  == "Polaczenie zostalo przerwane"
MSG_STATUS       == "Blad"
MSG_MAX_ATTEMPTS == "Przekroczono maksymalna liczbe prob"
MSG_NOT_FOUND    == "Plik nie istnieje"
MSG_CANCELLED    == "Pobieranie anulowane"
MSG_WRITE_ERROR  == "Blad zapisu pliku"

Reasons ==
  {MSG_INTERRUPTED, MSG_STATUS, MSG_MAX_ATTEMPTS, MSG_NOT_FOUND, MSG_CANCELLED, MSG_WRITE_ERROR}

\* ------------------------------------------------------------------------
\* Exceptions of the transport and of the local system, by class.
\* requests: ConnectTimeout and SSLError derive from ConnectionError;
\* ReadTimeout derives from Timeout only; ChunkedEncodingError and
\* ContentDecodingError derive from RequestException; RequestException
\* derives from IOError (OSError), as do the errors of os and open().
\* ------------------------------------------------------------------------
TransportErrors ==
  {"ConnectionError", "ConnectTimeout", "ReadTimeout", "ChunkedEncodingError"}

IsConnectionError(e) == e \in {"ConnectionError", "ConnectTimeout"}

IsChunkedEncodingError(e) == e = "ChunkedEncodingError"

IsIOError(e) ==
  e \in {"ConnectionError", "ConnectTimeout", "ReadTimeout", "ChunkedEncodingError",
         "ContentDecodingError", "OSError", "FileNotFoundError"}

\* Outcomes of the socket calls of _is_internet_connected.
ProbeOutcomes == {"connected", "gaierror", "timeout", "refused"}

IsInternetConnected(o) == o = "connected"

\* Responses of the server that get_request can see.
GetStatuses == {200, 404, 500, 503}
GetBodies   == {"", "xml"}

\* ------------------------------------------------------------------------
\* _generate_filename
\* ------------------------------------------------------------------------
\* 'x' in s, for a string s
InStr(x, s) == \E i \in 1..Len(s) : s[i] = x

\* 'x' in url, for a URL given by its segments
InUrl(x, url) == \E k \in 1..Len(url) : InStr(x, url[k])

\* s.split('?')[-1]: what follows the last '?'
AfterLastQuery(s) ==
  LET q == {i \in 1..Len(s) : s[i] = "?"}
      last == CHOOSE i \in q : \A j \in q : j <= i
  IN IF q = {} THEN s ELSE SubSeq(s, last + 1, Len(s))

\* variant: the '=' are kept
ReplaceEq_kept(s) == s

\* s.replace('=', '_')
ReplaceEq(s) == [i \in 1..Len(s) |-> IF s[i] = "=" THEN "_" ELSE s[i]]

\* file_name = url.split('/')[-1], rewritten when it holds a '?'
Baseline(url) ==
  LET file_name == url[Len(url)]
  IN IF InStr("?", file_name)
       THEN ReplaceEq(AfterLastQuery(file_name)) \o <<".zip">>
       ELSE file_name

NameOk(s) == [ok |-> TRUE, name |-> s]
IndexError == [ok |-> FALSE, name |-> <<>>]

\* url.split('/')[i] + ..., an IndexError when the URL has no segment i (0-based)
WithSegment(url, i, prefix, file_name) ==
  IF i + 1 <= Len(url)
    THEN NameOk(prefix \o url[i + 1] \o <<"_">> \o file_name)
    ELSE IndexError

\* variant: the bdot10k rule does not look for 'Archiwum'
GenerateFilename_bdot10kFirst(url) ==
  LET file_name == Baseline(url)
  IN IF InUrl("Budynki3D", url)
       THEN LET lod == IF InUrl("LOD1", url) THEN <<"Budynki_3D_LOD1_">> \o file_name
                       ELSE IF InUrl("LOD2", url) THEN <<"Budynki_3D_LOD2_">> \o file_name
                       ELSE file_name
            IN IF Len(url) = 9 THEN WithSegment(url, 6, <<>>, lod) ELSE NameOk(lod)
     ELSE IF InUrl("PRG", url)
       THEN NameOk(<<"PRG_">> \o file_name)
     ELSE IF InUrl("bdot10k", url)
       THEN NameOk(<<"bdot10k_">> \o file_name)
     ELSE IF InUrl("Archiwum", url) /\ InUrl("bdot10k", url)
       THEN WithSegment(url, 5, <<"archiwalne_bdot10k_">>, file_name)
     ELSE IF InUrl("bdoo", url)
       THEN WithSegment(url, 4, <<"bdoo_", "rok">>, file_name)
     ELSE IF InUrl("ZestawieniaZbiorczeEGiB", url)
       THEN WithSegment(url, 4, <<"ZestawieniaZbiorczeEGiB_", "rok">>, file_name)
     ELSE IF InUrl("osnowa", url)
       THEN NameOk(<<"podstawowa_osnowa_">> \o file_name)
     ELSE NameOk(file_name)

\* the if / elif chain of _generate_filename
GenerateFilename(url) ==
  LET file_name == Baseline(url)
  IN IF InUrl("Budynki3D", url)
       THEN LET lod == IF InUrl("LOD1", url) THEN <<"Budynki_3D_LOD1_">> \o file_name
                       ELSE IF InUrl("LOD2", url) THEN <<"Budynki_3D_LOD2_">> \o file_name
                       ELSE file_name
            IN IF Len(url) = 9 THEN WithSegment(url, 6, <<>>, lod) ELSE NameOk(lod)
     ELSE IF InUrl("PRG", url)
       THEN NameOk(<<"PRG_">> \o file_name)
     ELSE IF InUrl("bdot10k", url) /\ ~InUrl("Archiwum", url)
       THEN NameOk(<<"bdot10k_">> \o file_name)
     ELSE IF InUrl("Archiwum", url) /\ InUrl("bdot10k", url)
       THEN WithSegment(url, 5, <<"archiwalne_bdot10k_">>, file_name)
     ELSE IF InUrl("bdoo", url)
       THEN WithSegment(url, 4, <<"bdoo_", "rok">>, file_name)
     ELSE IF InUrl("ZestawieniaZbiorczeEGiB", url)
       THEN WithSegment(url, 4, <<"ZestawieniaZbiorczeEGiB_", "rok">>, file_name)
     ELSE IF InUrl("osnowa", url)
       THEN NameOk(<<"podstawowa_osnowa_">> \o file_name)
     ELSE NameOk(file_name)

\* The URLs given to _generate_filename.  Segment i is the plain segment
\* <<"s(i-1)">>, a segment with an '=' or a segment with a query; the rule
\* substrings of the URL stand at the front of one segment.
SegmentNames == <<"s0", "s1", "s2", "s3", "s4", "s5", "s6", "s7", "s8", "s9", "s10", "s11">>

Keywords ==
  <<"Budynki3D", "LOD1", "LOD2", "PRG", "bdot10k", "Archiwum", "bdoo",
    "ZestawieniaZbiorczeEGiB", "osnowa">>

Range(s) == {s[i] : i \in 1..Len(s)}

SegmentOf(i, kind) ==
  IF kind = 0 THEN <<SegmentNames[i]>>
  ELSE IF kind = 1 THEN <<"k", "=", "v">>
  ELSE <<"f", "?", "k", "=", "v">>

KeywordSeq(K) == SelectSeq(Keywords, LAMBDA w : w \in K)

MakeUrl(n, kinds, K, kp) ==
  [i \in 1..n |-> IF i = kp THEN KeywordSeq(K) \o SegmentOf(i, kinds[i])
                  ELSE SegmentOf(i, kinds[i])]

Min(a, b) == IF a < b THEN a ELSE b

SegmentKinds(n) ==
  { f \in [1..n -> 0..2] : Cardinality({i \in 1..n : f[i] # 0}) <= MaxSpecial }

KeywordSets == { S \in SUBSET Range(Keywords) : Cardinality(S) <= MaxKeywords }

\* ------------------------------------------------------------------------
\* download_file: inputs
\* ------------------------------------------------------------------------
ChunkSize == 8192            \* iter_content(chunk_size=8192)
ProbeInterval == 10000000    \* downloaded % 10000000 == 0

Calls == {1, 2}              \* the download_file calls

\* The URLs that download_file is called with: the first two give the same
\* file name, the third another one, the last has no segment 4 for 'bdoo'.
DlUrls ==
  << <<<<"https:">>, <<>>, <<"host">>, <<"f">>>>,
     <<<<"https:">>, <<>>, <<"host">>, <<"dir">>, <<"f">>>>,
     <<<<"https:">>, <<>>, <<"host">>, <<"PRG">>, <<"g">>>>,
     <<<<"https:">>, <<>>, <<"host">>, <<"bdoo">>>> >>

\* the file names of dest_folder that the calls can use
FileNames ==
  { GenerateFilename(DlUrls[u]).name : u \in {v \in 1..Len(DlUrls) : GenerateFilename(DlUrls[v]).ok} }

DlStatuses == {200, 404, 500}

\* the content-length header of the response
Headers ==
  { [present |-> FALSE, text |-> <<>>],
    [present |-> TRUE, text |-> <<"8", "1", "9", "2">>],
    [present |-> TRUE, text |-> <<"8", "x">>] }

Digits == <<"0", "1", "2", "3", "4", "5", "6", "7", "8", "9">>

IsDigit(c) == \E d \in 1..10 : Digits[d] = c

DigitValue(c) == (CHOOSE d \in 1..10 : Digits[d] = c) - 1

RECURSIVE DecimalValue(_)
DecimalValue(s) ==
  IF s = <<>> THEN 0
  ELSE 10 * DecimalValue(SubSeq(s, 1, Len(s) - 1)) + DigitValue(s[Len(s)])

\* int(response.headers.get('content-length', 0))
ContentLength(h) ==
  IF ~h.present THEN [ok |-> TRUE, value |-> 0]
  ELSE IF h.text # <<>> /\ \A i \in 1..Len(h.text) : IsDigit(h.text[i])
    THEN [ok |-> TRUE, value |-> DecimalValue(h.text)]
    ELSE [ok |-> FALSE, value |-> 0]

\* errors that iter_content can raise while the body is read
StreamErrors == {"ConnectionError", "ChunkedEncodingError", "ContentDecodingError"}

\* content of files: chunk k of call p is <<p, k>>
OldChunk == <<0, 1>>     \* content of a file that was there before
Hole == <<0, 0>>         \* zero bytes left by a write beyond the end of the file

\* f.write(chunk) at the position of the file object (positions count chunks)
WriteAt(content, offset, chunk) ==
  LET padded == IF Len(content) < offset
                  THEN content \o [i \in 1..(offset - Len(content)) |-> Hole]
                  ELSE content
  IN IF offset < Len(padded)
       THEN [padded EXCEPT ![offset + 1] = chunk]
       ELSE Append(padded, chunk)

VARIABLES
  dir_exists,  \* dest_folder exists
  fs,          \* directory entries of dest_folder: file name -> inode, 0 when there is no file
  data,        \* inode -> content of the file
  next_ino,    \* the next unused inode
  call,        \* the download_file calls: locals, position, result and history of each
  n_pc,        \* "input" before _generate_filename has run, "done" after, "off" when unused
  n_url,       \* the URL given to _generate_filename
  n_name,      \* what it returned (ok, name), or IndexError
  g_pc,        \* position of the get_request call
  g_max,       \* its max_attempts argument
  g_attempt,   \* its local attempt
  g_result,    \* the returned pair, [ok, msg, code, body]
  g_exc,       \* the exception that left get_request, or "none"
  g_probes,    \* history: calls of _is_internet_connected so far
  g_gets,      \* history: session.get calls so far
  g_fails,     \* history: session.get calls that raised a ConnectionError
  g_resps,     \* history: session.get calls that returned a response
  g_sleeps,    \* history: time.sleep(2) calls so far
  g_after,     \* history: probes + gets + sleeps made after a response was received
  g_status,    \* history: status of the response received, 0 if none
  g_body,      \* history: body of the response received
  g_disc,      \* history: a probe has reported "not connected"
  w_pc,        \* position of the get_wms_layers call, "off" when unused
  w_root,      \* its local root: the parsed document, or no tree
  w_parse,     \* history: what the parser did ("tree", "none", "raise"), "" before
  w_layers,    \* the list it returned
  w_exc,       \* the exception that left get_wms_layers, or "none"
  l_pc,        \* position in the chunk loop of a long download, "off" when unused
  l_chunks,    \* chunks read so far
  l_downloaded,\* its local downloaded
  l_probes,    \* history: calls of _is_internet_connected in the loop
  l_since      \* history: bytes written since the last of these calls

gvars ==
  <<g_pc, g_max, g_attempt, g_result, g_exc, g_probes, g_gets, g_fails, g_resps,
    g_sleeps, g_after, g_status, g_body, g_disc>>

nvars == <<n_pc, n_url, n_name>>

fsvars == <<dir_exists, fs, data, next_ino>>

wvars == <<w_pc, w_root, w_parse, w_layers, w_exc>>

lvars == <<l_pc, l_chunks, l_downloaded, l_probes, l_since>>

vars == <<gvars, nvars, fsvars, call, wvars, lvars>>

NoGetResult == [ok |-> FALSE, msg |-> "none", code |-> 0, body |-> ""]

GetInit ==
  /\ g_pc = "idle"
  /\ g_max = 0
  /\ g_attempt = 0
  /\ g_result = NoGetResult
  /\ g_exc = "none"
  /\ g_probes = 0
  /\ g_gets = 0
  /\ g_fails = 0
  /\ g_resps = 0
  /\ g_sleeps = 0
  /\ g_after = 0
  /\ g_status = 0
  /\ g_body = ""
  /\ g_disc = FALSE

\* variant: a loop of max_attempts tries
LoopCond_strict(attempt, max_attempts) == attempt < max_attempts

\* the condition of the while loop
LoopCond(attempt, max_attempts) == attempt <= max_attempts

\* g_after counts what happens once a response has been received.
After(n) == IF g_resps > 0 THEN g_after + n ELSE g_after

\* get_request(params, url, max_attempts): attempt = 0
GetCall(m) ==
  /\ g_pc = "idle"
  /\ g_pc' = "loop"
  /\ g_max' = m
  /\ g_attempt' = 0
  /\ UNCHANGED <<g_result, g_exc, g_probes, g_gets, g_fails, g_resps, g_sleeps, g_after,
                 g_status, g_body, g_disc>>
  /\ UNCHANGED <<nvars, fsvars, call, wvars, lvars>>

\* variant: a failed probe counts as a failed attempt and is retried
GetProbe_counted(o) ==
  /\ g_pc = "loop"
  /\ LoopCond(g_attempt, g_max)
  /\ g_probes' = g_probes + 1
  /\ g_after' = After(1)
  /\ g_disc' = (g_disc \/ ~IsInternetConnected(o))
  /\ IF IsInternetConnected(o)
       THEN /\ g_pc' = "get"
            /\ UNCHANGED g_attempt
       ELSE /\ g_pc' = "sleep"
            /\ g_attempt' = g_attempt + 1
  /\ UNCHANGED <<g_max, g_result, g_exc, g_gets, g_fails, g_resps, g_sleeps, g_status, g_body>>
  /\ UNCHANGED <<nvars, fsvars, call, wvars, lvars>>

\* while attempt <= max_attempts: if not self._is_internet_connected(): return False, ...
GetProbe(o) ==
  /\ g_pc = "loop"
  /\ LoopCond(g_attempt, g_max)
  /\ g_probes' = g_probes + 1
  /\ g_after' = After(1)
  /\ g_disc' = (g_disc \/ ~IsInternetConnected(o))
  /\ IF IsInternetConnected(o)
       THEN /\ g_pc' = "get"
            /\ UNCHANGED g_result
       ELSE /\ g_pc' = "done"
            /\ g_result' = [ok |-> FALSE, msg |-> MSG_INTERRUPTED, code |-> 0, body |-> ""]
  /\ UNCHANGED <<g_max, g_attempt, g_exc, g_gets, g_fails, g_resps, g_sleeps, g_status, g_body>>
  /\ UNCHANGED <<nvars, fsvars, call, wvars, lvars>>

\* the while condition is false: return False, 'Przekroczono maksymalna liczbe prob'
GetExhausted ==
  /\ g_pc = "loop"
  /\ ~LoopCond(g_attempt, g_max)
  /\ g_pc' = "done"
  /\ g_result' = [ok |-> FALSE, msg |-> MSG_MAX_ATTEMPTS, code |-> 0, body |-> ""]
  /\ UNCHANGED <<g_max, g_attempt, g_exc, g_probes, g_gets, g_fails, g_resps, g_sleeps, g_after,
                 g_status, g_body, g_disc>>
  /\ UNCHANGED <<nvars, fsvars, call, wvars, lvars>>

\* variant: a status other than 200 is retried like a connection error
GetResponse_retry(status, body) ==
  /\ g_pc = "get"
  /\ g_gets' = g_gets + 1
  /\ g_after' = After(1)
  /\ g_resps' = g_resps + 1
  /\ g_status' = status
  /\ g_body' = body
  /\ IF status = 200
       THEN /\ g_pc' = "done"
            /\ g_result' = [ok |-> TRUE, msg |-> "", code |-> 200, body |-> body]
            /\ UNCHANGED g_attempt
       ELSE /\ g_pc' = "sleep"
            /\ g_attempt' = g_attempt + 1
            /\ UNCHANGED g_result
  /\ UNCHANGED <<g_max, g_exc, g_probes, g_fails, g_sleeps, g_disc>>
  /\ UNCHANGED <<nvars, fsvars, call, wvars, lvars>>

\* session.get returned a response: 200 gives the text, any other status an error
GetResponse(status, body) ==
  /\ g_pc = "get"
  /\ g_gets' = g_gets + 1
  /\ g_after' = After(1)
  /\ g_resps' = g_resps + 1
  /\ g_status' = status
  /\ g_body' = body
  /\ g_pc' = "done"
  /\ g_result' = IF status = 200
                   THEN [ok |-> TRUE, msg |-> "", code |-> 200, body |-> body]
                   ELSE [ok |-> FALSE, msg |-> MSG_STATUS, code |-> status, body |-> ""]
  /\ UNCHANGED <<g_max, g_attempt, g_exc, g_probes, g_fails, g_sleeps, g_disc>>
  /\ UNCHANGED <<nvars, fsvars, call, wvars, lvars>>

\* session.get raised: except ConnectionError: attempt += 1 (then time.sleep(2));
\* any other exception leaves get_request
GetRaise(e) ==
  /\ g_pc = "get"
  /\ g_gets' = g_gets + 1
  /\ g_after' = After(1)
  /\ IF IsConnectionError(e)
       THEN /\ g_attempt' = g_attempt + 1
            /\ g_fails' = g_fails + 1
            /\ g_pc' = "sleep"
            /\ UNCHANGED g_exc
       ELSE /\ g_pc' = "raised"
            /\ g_exc' = e
            /\ UNCHANGED <<g_attempt, g_fails>>
  /\ UNCHANGED <<g_max, g_result, g_probes, g_resps, g_sleeps, g_status, g_body, g_disc>>
  /\ UNCHANGED <<nvars, fsvars, call, wvars, lvars>>

\* time.sleep(2), then back to the while condition
GetSleep ==
  /\ g_pc = "sleep"
  /\ g_sleeps' = g_sleeps + 1
  /\ g_after' = After(1)
  /\ g_pc' = "loop"
  /\ UNCHANGED <<g_max, g_attempt, g_result, g_exc, g_probes, g_gets, g_fails, g_resps,
                 g_status, g_body, g_disc>>
  /\ UNCHANGED <<nvars, fsvars, call, wvars, lvars>>

GetStep ==
  \/ \E m \in 0..MaxAttemptsArg : GetCall(m)
  \/ \E o \in ProbeOutcomes : GetProbe(o)
  \/ GetExhausted
  \/ \E s \in GetStatuses, b \in GetBodies : GetResponse(s, b)
  \/ \E e \in TransportErrors : GetRaise(e)
  \/ GetSleep

\* ------------------------------------------------------------------------
\* The file system under dest_folder
\* ------------------------------------------------------------------------
MaxIno == Cardinality(FileNames) + Cardinality(Calls)

\* the inode of the file that is at a name before any call
InitialIno == CHOOSE f \in [FileNames -> 1..Cardinality(FileNames)] :
                \A a, b \in FileNames : a # b => f[a] # f[b]

FsInit ==
  /\ dir_exists \in BOOLEAN
  /\ fs \in [FileNames -> 0..Cardinality(FileNames)]
  /\ \A a \in FileNames : fs[a] \in {0, InitialIno[a]}
  /\ (\E a \in FileNames : fs[a] # 0) => dir_exists
  /\ data = [i \in 1..MaxIno |-> IF \E a \in FileNames : fs[a] = i THEN <<OldChunk>> ELSE <<>>]
  /\ next_ino = Cardinality(FileNames) + 1

\* os.path.exists(path)
Exists(path) == fs[path] # 0

Snapshot == [fs |-> fs, data |-> data, dir |-> dir_exists]

\* ------------------------------------------------------------------------
\* download_file
\* ------------------------------------------------------------------------
NoDlResult == [ok |-> FALSE, msg |-> "none", path |-> <<>>]

IdleCall ==
  [pc |-> "idle", url |-> 0, path |-> <<>>, cb |-> FALSE, cc |-> "none",
   status |-> 0, total |-> 0, downloaded |-> 0, delivered |-> 0, handle |-> 0, offset |-> 0,
   site |-> "none", result |-> NoDlResult, exc |-> "none", log |-> <<>>, samples |-> <<>>,
   early |-> FALSE, header |-> [present |-> FALSE, text |-> <<>>]]

\* call[p].c is the call itself; the rest is history: snap, the file system
\* when the call started; together, another call was in progress during the
\* call; shared, another call on the same path was in progress during it
DlInit ==
  call = [p \in Calls |->
            [c |-> IdleCall, snap |-> Snapshot, together |-> FALSE, shared |-> FALSE]]

Active(c) == c.pc \notin {"idle", "done", "raised"}

Logged(c, events) == [c EXCEPT !.log = @ \o events]

\* c.exc is the exception raised in the call, "none" when there was none;
\* c.log lists what the call did; c.early says that the cancel predicate was
\* true before the first chunk was read

\* return ok, msg / path
Done(c, ok, msg) ==
  [c EXCEPT !.pc = "done",
            !.result = [ok |-> ok, msg |-> msg, path |-> IF ok THEN c.path ELSE <<>>]]

\* an exception leaves download_file
Raised(c, e) == [c EXCEPT !.pc = "raised", !.exc = e]

\* variant: the first except clause returns without _cleanup_file
OnException_noCleanup(c, e) ==
  IF IsConnectionError(e) \/ IsChunkedEncodingError(e)
    THEN Done([c EXCEPT !.exc = e], FALSE, MSG_INTERRUPTED)
  ELSE IF IsIOError(e)
    THEN Done([c EXCEPT !.exc = e], FALSE, MSG_WRITE_ERROR)
  ELSE Raised(c, e)

\* the except clauses of the try block:
\*   except (ConnectionError, ChunkedEncodingError): self._cleanup_file(path); return False, ...
\*   except IOError: return False, "Blad zapisu pliku"
OnException(c, e) ==
  IF IsConnectionError(e) \/ IsChunkedEncodingError(e)
    THEN [c EXCEPT !.pc = "exists", !.site = "handler", !.exc = e]
  ELSE IF IsIOError(e)
    THEN Done([c EXCEPT !.exc = e], FALSE, MSG_WRITE_ERROR)
  ELSE Raised(c, e)

\* what follows each call of _cleanup_file
AfterCleanup(c) ==
  CASE c.site = "pre"     -> [c EXCEPT !.pc = "makedirs"]
    [] c.site = "cancel"  -> Done(c, FALSE, MSG_CANCELLED)
    [] c.site = "disc"    -> Done(c, FALSE, MSG_INTERRUPTED)
    [] c.site = "handler" -> Done(c, FALSE, MSG_INTERRUPTED)

SetCall(p, c) == call' = [call EXCEPT ![p].c = c]

\* download_file(url, dest_folder, progress_callback, cancel_check):
\* file_name = self._generate_filename(url), outside the try block
DlCall(p, u, cb, cc) ==
  /\ call[p].c.pc = "idle"
  /\ LET r == GenerateFilename(DlUrls[u])
         c == [call[p].c EXCEPT !.url = u, !.cb = cb, !.cc = cc, !.early = (cc = "yes")]
         others == {q \in Calls \ {p} : r.ok /\ Active(call[q].c)}
         same == {q \in others : call[q].c.path = r.name}
     IN call' = [q \in Calls |->
                   IF q = p
                     THEN [c |-> IF r.ok THEN [c EXCEPT !.pc = "get", !.path = r.name]
                                 ELSE Raised(c, "IndexError"),
                           snap |-> Snapshot,
                           together |-> others # {},
                           shared |-> same # {}]
                     ELSE [call[q] EXCEPT !.together = @ \/ q \in others,
                                          !.shared = @ \/ q \in same]]
  /\ UNCHANGED fsvars
  /\ UNCHANGED <<gvars, nvars, wvars, lvars>>

\* variant: every status from 400 on is answered like a 404
DlResponse_errorStatus(p, status, header) ==
  /\ call[p].c.pc = "get"
  /\ LET c == [Logged(call[p].c, <<"get">>) EXCEPT
                 !.status = status, !.header = IF status >= 400 THEN @ ELSE header]
         t == ContentLength(header)
     IN SetCall(p, IF status >= 400 THEN Done(c, FALSE, MSG_NOT_FOUND)
                   ELSE IF t.ok
                     THEN [c EXCEPT !.total = t.value, !.downloaded = 0,
                                    !.pc = "exists", !.site = "pre"]
                     ELSE OnException(c, "ValueError"))
  /\ UNCHANGED fsvars
  /\ UNCHANGED <<gvars, nvars, wvars, lvars>>

\* variant: a 404 removes the file at the destination before returning
DlResponse_cleanup404(p, status, header) ==
  /\ call[p].c.pc = "get"
  /\ LET c == [Logged(call[p].c, <<"get">>) EXCEPT
                 !.status = status, !.header = IF status = 404 THEN @ ELSE header]
         t == ContentLength(header)
     IN /\ SetCall(p, IF status = 404 THEN Done(c, FALSE, MSG_NOT_FOUND)
                      ELSE IF t.ok
                        THEN [c EXCEPT !.total = t.value, !.downloaded = 0,
                                       !.pc = "exists", !.site = "pre"]
                        ELSE OnException(c, "ValueError"))
        /\ fs' = IF status = 404 THEN [fs EXCEPT ![c.path] = 0] ELSE fs
  /\ UNCHANGED <<dir_exists, data, next_ino>>
  /\ UNCHANGED <<gvars, nvars, wvars, lvars>>

\* session.get(stream=True) returned: 404, or total_size = int(content-length)
DlResponse(p, status, header) ==
  /\ call[p].c.pc = "get"
  /\ LET c == [Logged(call[p].c, <<"get">>) EXCEPT
                 !.status = status, !.header = IF status = 404 THEN @ ELSE header]
         t == ContentLength(header)
     IN SetCall(p, IF status = 404 THEN Done(c, FALSE, MSG_NOT_FOUND)
                   ELSE IF t.ok
                     THEN [c EXCEPT !.total = t.value, !.downloaded = 0,
                                    !.pc = "exists", !.site = "pre"]
                     ELSE OnException(c, "ValueError"))
  /\ UNCHANGED fsvars
  /\ UNCHANGED <<gvars, nvars, wvars, lvars>>

\* session.get(stream=True) raised
DlGetRaise(p, e) ==
  /\ call[p].c.pc = "get"
  /\ SetCall(p, OnException(Logged(call[p].c, <<"get">>), e))
  /\ UNCHANGED fsvars
  /\ UNCHANGED <<gvars, nvars, wvars, lvars>>

\* _cleanup_file: if os.path.exists(path)
CleanupExists(p) ==
  /\ call[p].c.pc = "exists"
  /\ LET c == Logged(call[p].c, <<"exists">>)
     IN SetCall(p, IF Exists(c.path) THEN [c EXCEPT !.pc = "remove"] ELSE AfterCleanup(c))
  /\ UNCHANGED fsvars
  /\ UNCHANGED <<gvars, nvars, wvars, lvars>>

\* _cleanup_file: os.remove(path); FileNotFoundError when the file is gone
CleanupRemove(p) ==
  /\ call[p].c.pc = "remove"
  /\ LET c == Logged(call[p].c, <<"remove">>)
     IN IF Exists(c.path)
          THEN /\ fs' = [fs EXCEPT ![c.path] = 0]
               /\ SetCall(p, AfterCleanup(c))
          ELSE /\ UNCHANGED fs
               /\ SetCall(p, IF c.site = "handler" THEN Raised(c, "FileNotFoundError")
                             ELSE OnException(c, "FileNotFoundError"))
  /\ UNCHANGED <<dir_exists, data, next_ino>>
  /\ UNCHANGED <<gvars, nvars, wvars, lvars>>

\* os.makedirs(dest_folder, exist_ok=True)
Makedirs(p) ==
  /\ call[p].c.pc = "makedirs"
  /\ dir_exists' = TRUE
  /\ SetCall(p, [Logged(call[p].c, <<"makedirs">>) EXCEPT !.pc = "open"])
  /\ UNCHANGED <<fs, data, next_ino>>
  /\ UNCHANGED <<gvars, nvars, wvars, lvars>>

\* open(path, 'wb'): creates the file or truncates the one that is there
Open(p) ==
  /\ call[p].c.pc = "open"
  /\ LET c == Logged(call[p].c, <<"open">>)
         ino == IF Exists(c.path) THEN fs[c.path] ELSE next_ino
     IN /\ fs' = [fs EXCEPT ![c.path] = ino]
        /\ data' = [data EXCEPT ![ino] = <<>>]
        /\ next_ino' = IF Exists(c.path) THEN next_ino ELSE next_ino + 1
        /\ SetCall(p, [c EXCEPT !.pc = "iter", !.handle = ino, !.offset = 0])
  /\ UNCHANGED dir_exists
  /\ UNCHANGED <<gvars, nvars, wvars, lvars>>

\* os.makedirs, open or f.write fails with an OSError
LocalIOError(p) ==
  /\ call[p].c.pc \in {"makedirs", "open", "write"}
  /\ SetCall(p, OnException(call[p].c, "OSError"))
  /\ UNCHANGED fsvars
  /\ UNCHANGED <<gvars, nvars, wvars, lvars>>

\* for chunk in response.iter_content(chunk_size=8192): the next chunk arrives
IterChunk(p) ==
  /\ call[p].c.pc = "iter"
  /\ call[p].c.delivered < MaxChunks
  /\ SetCall(p, [Logged(call[p].c, <<"chunk">>) EXCEPT !.pc = "poll", !.delivered = @ + 1])
  /\ UNCHANGED fsvars
  /\ UNCHANGED <<gvars, nvars, wvars, lvars>>

\* the stream is exhausted: response.close(); return True, path
IterEnd(p) ==
  /\ call[p].c.pc = "iter"
  /\ SetCall(p, Done(Logged(call[p].c, <<"close">>), TRUE, ""))
  /\ UNCHANGED fsvars
  /\ UNCHANGED <<gvars, nvars, wvars, lvars>>

\* reading the next chunk raises
IterRaise(p, e) ==
  /\ call[p].c.pc = "iter"
  /\ SetCall(p, OnException(call[p].c, e))
  /\ UNCHANGED fsvars
  /\ UNCHANGED <<gvars, nvars, wvars, lvars>>

\* variant: a cancelled call returns without _cleanup_file
CancelPoll_noCleanup(p) ==
  /\ call[p].c.pc = "poll"
  /\ LET c == call[p].c
     IN SetCall(p, IF c.cc = "none" THEN [c EXCEPT !.pc = "probe"]
                   ELSE IF c.cc = "yes"
                     THEN Done(Logged(c, <<"poll", "close">>), FALSE, MSG_CANCELLED)
                     ELSE [Logged(c, <<"poll">>) EXCEPT !.pc = "probe"])
  /\ UNCHANGED fsvars
  /\ UNCHANGED <<gvars, nvars, wvars, lvars>>

\* variant: the cancel predicate is looked at only once something is downloaded
CancelPoll_late(p) ==
  /\ call[p].c.pc = "poll"
  /\ LET c == call[p].c
     IN SetCall(p, IF c.cc = "none" \/ c.downloaded = 0 THEN [c EXCEPT !.pc = "probe"]
                   ELSE IF c.cc = "yes"
                     THEN [Logged(c, <<"poll", "close">>) EXCEPT !.pc = "exists", !.site = "cancel"]
                     ELSE [Logged(c, <<"poll">>) EXCEPT !.pc = "probe"])
  /\ UNCHANGED fsvars
  /\ UNCHANGED <<gvars, nvars, wvars, lvars>>

\* if cancel_check and cancel_check(): response.close(); self._cleanup_file(path); return
CancelPoll(p) ==
  /\ call[p].c.pc = "poll"
  /\ LET c == call[p].c
     IN SetCall(p, IF c.cc = "none" THEN [c EXCEPT !.pc = "probe"]
                   ELSE IF c.cc = "yes"
                     THEN [Logged(c, <<"poll", "close">>) EXCEPT !.pc = "exists", !.site = "cancel"]
                     ELSE [Logged(c, <<"poll">>) EXCEPT !.pc = "probe"])
  /\ UNCHANGED fsvars
  /\ UNCHANGED <<gvars, nvars, wvars, lvars>>

\* if downloaded % 10000000 == 0
ProbeDue(downloaded) == downloaded % ProbeInterval = 0

\* if downloaded % 10000000 == 0: if not self._is_internet_connected(): ...
ProbeRule(p, o) ==
  /\ call[p].c.pc = "probe"
  /\ LET c == call[p].c
     IN SetCall(p, IF ProbeDue(c.downloaded)
                     THEN IF IsInternetConnected(o)
                            THEN [Logged(c, <<"probe">>) EXCEPT !.pc = "write"]
                            ELSE [Logged(c, <<"probe", "close">>) EXCEPT
                                    !.pc = "exists", !.site = "disc"]
                     ELSE [c EXCEPT !.pc = "write"])
  /\ UNCHANGED fsvars
  /\ UNCHANGED <<gvars, nvars, wvars, lvars>>

\* variant: every chunk is written at the start of the file
WriteChunk_rewind(p) ==
  /\ call[p].c.pc = "write"
  /\ LET c == call[p].c
         d == c.downloaded + ChunkSize
     IN /\ data' = [data EXCEPT ![c.handle] = WriteAt(@, 0, <<p, c.delivered>>)]
        /\ SetCall(p, [Logged(c, IF c.cb THEN <<"write", "count", "progress">>
                                 ELSE <<"write", "count">>)
                         EXCEPT !.pc = "iter", !.downloaded = d,
                                !.samples = IF c.cb THEN Append(@, <<d, c.total>>) ELSE @])
  /\ UNCHANGED <<dir_exists, fs, next_ino>>
  /\ UNCHANGED <<gvars, nvars, wvars, lvars>>

\* variant: the file object is kept on the client, so that every call writes
\* to the file opened last
WriteChunk_sharedFile(p) ==
  /\ call[p].c.pc = "write"
  /\ LET c == call[p].c
         d == c.downloaded + ChunkSize
         open == {q \in Calls : call[q].c.handle # 0}
         f == CHOOSE i \in {call[q].c.handle : q \in open} :
                \A q \in open : call[q].c.handle <= i
     IN /\ data' = [data EXCEPT ![f] = WriteAt(@, c.offset, <<p, c.delivered>>)]
        /\ SetCall(p, [Logged(c, IF c.cb THEN <<"write", "count", "progress">>
                                 ELSE <<"write", "count">>)
                         EXCEPT !.pc = "iter", !.offset = @ + 1, !.downloaded = d,
                                !.samples = IF c.cb THEN Append(@, <<d, c.total>>) ELSE @])
  /\ UNCHANGED <<dir_exists, fs, next_ino>>
  /\ UNCHANGED <<gvars, nvars, wvars, lvars>>

\* f.write(chunk); downloaded += len(chunk); progress_callback(downloaded, total_size)
WriteChunk(p) ==
  /\ call[p].c.pc = "write"
  /\ LET c == call[p].c
         d == c.downloaded + ChunkSize
     IN /\ data' = [data EXCEPT ![c.handle] = WriteAt(@, c.offset, <<p, c.delivered>>)]
        /\ SetCall(p, [Logged(c, IF c.cb THEN <<"write", "count", "progress">>
                                 ELSE <<"write", "count">>)
                         EXCEPT !.pc = "iter", !.offset = @ + 1, !.downloaded = d,
                                !.samples = IF c.cb THEN Append(@, <<d, c.total>>) ELSE @])
  /\ UNCHANGED <<dir_exists, fs, next_ino>>
  /\ UNCHANGED <<gvars, nvars, wvars, lvars>>

\* the caller's cancel predicate starts to return true
UserCancel(p) ==
  /\ Active(call[p].c)
  /\ call[p].c.cc = "no"
  /\ SetCall(p, [call[p].c EXCEPT !.cc = "yes", !.early = (call[p].c.delivered = 0)])
  /\ UNCHANGED fsvars
  /\ UNCHANGED <<gvars, nvars, wvars, lvars>>

DlStep(p) ==
  \/ \E u \in 1..Len(DlUrls), cb \in BOOLEAN, cc \in {"none", "no", "yes"} : DlCall(p, u, cb, cc)
  \/ \E s \in DlStatuses, h \in Headers : DlResponse(p, s, h)
  \/ \E e \in TransportErrors : DlGetRaise(p, e)
  \/ CleanupExists(p)
  \/ CleanupRemove(p)
  \/ Makedirs(p)
  \/ Open(p)
  \/ LocalIOError(p)
  \/ IterChunk(p)
  \/ IterEnd(p)
  \/ \E e \in StreamErrors : IterRaise(p, e)
  \/ CancelPoll(p)
  \/ \E o \in ProbeOutcomes : ProbeRule(p, o)
  \/ WriteChunk(p)
  \/ UserCancel(p)

\* ------------------------------------------------------------------------
\* _generate_filename applied to a URL
\* ------------------------------------------------------------------------
NameOff ==
  /\ n_pc = "off"
  /\ n_url = <<>>
  /\ n_name = IndexError

Classify ==
  /\ n_pc = "input"
  /\ n_pc' = "done"
  /\ n_name' = GenerateFilename(n_url)
  /\ UNCHANGED n_url
  /\ UNCHANGED <<gvars, fsvars, call, wvars, lvars>>

\* ------------------------------------------------------------------------
\* get_wms_layers
\* ------------------------------------------------------------------------
\* The text of a Name element: "" stands for an element without text.
Texts == {"", "A", "B"}

\* A Layer element: cap, it lies below a Capability element; names, the texts
\* of its Name children in document order.
LayerElements ==
  [cap : BOOLEAN, names : UNION {[1..m -> Texts] : m \in 0..MaxNames}]

\* A parsed capability document: ns, its root declares a default namespace;
\* layers, its Layer elements at any depth, in document order.
Documents ==
  [tree : {TRUE}, ns : BOOLEAN,
   layers : UNION {[1..n -> LayerElements] : n \in 0..MaxLayers}]

\* root is None
NoTree == [tree |-> FALSE, ns |-> FALSE, layers |-> <<>>]

\* what ET.fromstring does with a payload and a recovering parser
ParseOutcomes == {"tree", "none", "raise"}

RECURSIVE Flatten(_)
Flatten(ss) == IF ss = <<>> THEN <<>> ELSE Head(ss) \o Flatten(Tail(ss))

\* the texts that pass "if el.text" / "if name_el.text"
NonEmpty(s) == SelectSeq(s, LAMBDA t : t # "")

\* root.xpath(".//wms:Capability//wms:Layer[wms:Name]/wms:Name"), filtered
XpathNames(root) ==
  NonEmpty(Flatten([i \in 1..Len(root.layers) |->
                      IF root.layers[i].cap THEN root.layers[i].names ELSE <<>>]))

\* for layer in root.findall(".//Layer"): name_el = layer.find("Name"); ...
FindallNames(root) ==
  NonEmpty(Flatten([i \in 1..Len(root.layers) |->
                      IF root.layers[i].names = <<>> THEN <<>>
                      ELSE <<root.layers[i].names[1]>>]))

\* the list named layers before duplicates are removed
CollectNames(root) == IF root.ns THEN XpathNames(root) ELSE FindallNames(root)

\* list(dict.fromkeys(layers))
RECURSIVE FromKeys(_)
FromKeys(s) ==
  IF s = <<>> THEN <<>>
  ELSE LET r == FromKeys(SubSeq(s, 1, Len(s) - 1))
       IN IF s[Len(s)] \in Range(r) THEN r ELSE Append(r, s[Len(s)])

\* variant: the collected list is returned as it is
WmsLayers_duplicates(root) == CollectNames(root)

\* the value get_wms_layers returns for a parsed document
WmsLayers(root) == FromKeys(CollectNames(root))

\* get_request(params, url) is called with its default max_attempts
DefaultMaxAttempts == 3

WmsOff ==
  /\ w_pc = "off"
  /\ w_root = NoTree
  /\ w_parse = ""
  /\ w_layers = <<>>
  /\ w_exc = "none"

\* ok, payload = self.get_request(params, url)
WmsGetRequest ==
  /\ w_pc = "call"
  /\ GetCall(DefaultMaxAttempts)

\* get_request raised: nothing in get_wms_layers catches it
WmsGetRaised ==
  /\ w_pc = "call"
  /\ g_pc = "raised"
  /\ w_pc' = "raised"
  /\ w_exc' = g_exc
  /\ UNCHANGED <<w_root, w_parse, w_layers>>
  /\ UNCHANGED <<gvars, nvars, fsvars, call, lvars>>

\* if not ok or not payload: return []
WmsNoPayload ==
  /\ w_pc = "call"
  /\ g_pc = "done"
  /\ ~g_result.ok \/ g_result.body = ""
  /\ w_pc' = "done"
  /\ w_layers' = <<>>
  /\ UNCHANGED <<w_root, w_parse, w_exc>>
  /\ UNCHANGED <<gvars, nvars, fsvars, call, lvars>>

\* try: root = ET.fromstring(payload.encode("utf-8"), parser=parser)
\* except Exception: root = ET.fromstring(payload, parser=parser)
\* first and second are what the two calls do, doc is the tree they build
WmsParse(first, second, doc) ==
  /\ w_pc = "call"
  /\ g_pc = "done"
  /\ g_result.ok /\ g_result.body # ""
  /\ LET outcome == IF first = "raise" THEN second ELSE first
     IN /\ w_parse' = outcome
        /\ w_root' = IF outcome = "tree" THEN doc ELSE NoTree
        /\ w_pc' = IF outcome = "raise" THEN "raised" ELSE "parsed"
        /\ w_exc' = IF outcome = "raise" THEN "XMLSyntaxError" ELSE "none"
  /\ UNCHANGED w_layers
  /\ UNCHANGED <<gvars, nvars, fsvars, call, lvars>>

\* ns_uri = root.nsmap.get(None), None on AttributeError; the xpath or the
\* findall loop; return list(dict.fromkeys(layers)). On root None the
\* AttributeError of root.nsmap is caught and that of root.findall is not.
WmsExtract ==
  /\ w_pc = "parsed"
  /\ IF w_root.tree
       THEN /\ w_pc' = "done"
            /\ w_layers' = WmsLayers(w_root)
            /\ UNCHANGED w_exc
       ELSE /\ w_pc' = "raised"
            /\ w_exc' = "AttributeError"
            /\ UNCHANGED w_layers
  /\ UNCHANGED <<w_root, w_parse>>
  /\ UNCHANGED <<gvars, nvars, fsvars, call, lvars>>

\* ------------------------------------------------------------------------
\* The chunk loop of download_file on a long body
\* ------------------------------------------------------------------------
LongOff ==
  /\ l_pc = "off"
  /\ l_chunks = 0
  /\ l_downloaded = 0
  /\ l_probes = 0
  /\ l_since = 0

\* for chunk in response.iter_content(chunk_size=8192): the next chunk
LongChunk ==
  /\ l_pc = "iter"
  /\ l_chunks < MaxLongChunks
  /\ l_chunks' = l_chunks + 1
  /\ l_pc' = "probe"
  /\ UNCHANGED <<l_downloaded, l_probes, l_since>>
  /\ UNCHANGED <<gvars, nvars, fsvars, call, wvars>>

\* if downloaded % 10000000 == 0: if not self._is_internet_connected(): ...
\* with a prober that reports a connection every time
LongProbeRule ==
  /\ l_pc = "probe"
  /\ l_pc' = "write"
  /\ l_probes' = IF ProbeDue(l_downloaded) THEN l_probes + 1 ELSE l_probes
  /\ l_since' = IF ProbeDue(l_downloaded) THEN 0 ELSE l_since
  /\ UNCHANGED <<l_chunks, l_downloaded>>
  /\ UNCHANGED <<gvars, nvars, fsvars, call, wvars>>

\* f.write(chunk); downloaded += len(chunk)
LongWrite ==
  /\ l_pc = "write"
  /\ l_pc' = "iter"
  /\ l_downloaded' = l_downloaded + ChunkSize
  /\ l_since' = l_since + ChunkSize
  /\ UNCHANGED <<l_chunks, l_probes>>
  /\ UNCHANGED <<gvars, nvars, fsvars, call, wvars>>

\* ------------------------------------------------------------------------
\* Specifications
\* ------------------------------------------------------------------------
\* the state in which the download_file calls and the file system take no part
DlOff ==
  /\ dir_exists = FALSE
  /\ fs = [a \in FileNames |-> 0]
  /\ data = [i \in 1..MaxIno |-> <<>>]
  /\ next_ino = Cardinality(FileNames) + 1
  /\ DlInit

\* one download_file call, on any file system
Init == GetInit /\ NameOff /\ FsInit /\ DlInit /\ WmsOff /\ LongOff
Next == DlStep(1)
Spec == Init /\ [][Next]_vars

\* the download_file calls run concurrently, interleaved at every step, from
\* an empty file system (the files of one call are there for the next); each
\* call has a cancel predicate and no progress callback, and the server and
\* the network behave in fewer ways than in Spec
DlStepConc(p) ==
  \/ \E u \in 1..3 : DlCall(p, u, FALSE, "no")
  \/ \E s \in {200, 404} : DlResponse(p, s, [present |-> FALSE, text |-> <<>>])
  \/ DlGetRaise(p, "ConnectionError")
  \/ CleanupExists(p)
  \/ CleanupRemove(p)
  \/ Makedirs(p)
  \/ Open(p)
  \/ LocalIOError(p)
  \/ IterChunk(p)
  \/ IterEnd(p)
  \/ \E e \in {"ConnectionError", "ContentDecodingError"} : IterRaise(p, e)
  \/ CancelPoll(p)
  \/ \E o \in {"connected", "refused"} : ProbeRule(p, o)
  \/ WriteChunk(p)
  \/ UserCancel(p)

NextConc == \E p \in Calls : DlStepConc(p)
InitConc == GetInit /\ NameOff /\ DlOff /\ WmsOff /\ LongOff
SpecConc == InitConc /\ [][NextConc]_vars

\* one get_request call
InitGet == GetInit /\ NameOff /\ DlOff /\ WmsOff /\ LongOff
NextGet == GetStep
SpecGet == InitGet /\ [][NextGet]_vars

\* _generate_filename on every URL that MakeUrl builds within the bounds
InitName ==
  /\ GetInit
  /\ DlOff
  /\ n_pc = "input"
  /\ \E n \in 1..MaxSegments :
       \E kinds \in SegmentKinds(n), K \in KeywordSets, kp \in {Min(4, n), n} :
         n_url = MakeUrl(n, kinds, K, kp)
  /\ n_name = IndexError
  /\ WmsOff
  /\ LongOff
NextName == Classify
SpecName == InitName /\ [][NextName]_vars

\* one get_wms_layers call
InitWms ==
  /\ GetInit
  /\ NameOff
  /\ DlOff
  /\ LongOff
  /\ w_pc = "call"
  /\ w_root = NoTree
  /\ w_parse = ""
  /\ w_layers = <<>>
  /\ w_exc = "none"
NextWms ==
  \/ WmsGetRequest
  \/ \E o \in ProbeOutcomes : GetProbe(o)
  \/ GetExhausted
  \/ \E s \in GetStatuses, b \in GetBodies : GetResponse(s, b)
  \/ \E e \in TransportErrors : GetRaise(e)
  \/ GetSleep
  \/ WmsGetRaised
  \/ WmsNoPayload
  \/ \E first \in ParseOutcomes, second \in ParseOutcomes :
       \E doc \in IF "tree" \in {first, second} THEN Documents ELSE {NoTree} :
         WmsParse(first, second, doc)
  \/ WmsExtract
SpecWms == InitWms /\ [][NextWms]_vars

\* the part of get_wms_layers that follows the parser, on every document
\* within the bounds and on no tree
InitLayers ==
  /\ GetInit
  /\ NameOff
  /\ DlOff
  /\ LongOff
  /\ w_pc = "parsed"
  /\ w_root \in Documents \cup {NoTree}
  /\ w_parse = IF w_root.tree THEN "tree" ELSE "none"
  /\ w_layers = <<>>
  /\ w_exc = "none"
NextLayers == WmsExtract
SpecLayers == InitLayers /\ [][NextLayers]_vars

\* the chunk loop of one download_file call, from the first chunk on, with
\* no cancel predicate and no progress callback
InitLong ==
  /\ GetInit
  /\ NameOff
  /\ DlOff
  /\ WmsOff
  /\ l_pc = "iter"
  /\ l_chunks = 0
  /\ l_downloaded = 0
  /\ l_probes = 0
  /\ l_since = 0
NextLong == LongChunk \/ LongProbeRule \/ LongWrite
SpecLong == InitLong /\ [][NextLong]_vars

\* ------------------------------------------------------------------------
\* Properties
\* ------------------------------------------------------------------------
Count(log, ev) == Cardinality({i \in 1..Len(log) : log[i] = ev})

Returned(c) == c.pc = "done"

Failed(c) == Returned(c) /\ ~c.result.ok

\* C1: whenever download_file returns (False, reason), there is no file at
\* dest_folder/file_name, whatever the failure and whether or not a file was
\* there before the call.
C1_NoFileAfterFailure ==
  \A p \in Calls : Failed(call[p].c) => ~Exists(call[p].c.path)

\* C2: get_request and download_file end by returning (False, reason), with
\* reason one of the fixed messages, for every failure inside them
\* (connection error, timeout, chunked-transfer error, local I/O error): no
\* exception reaches the caller.
C2_NoExceptionEscapes ==
  /\ g_pc # "raised"
  /\ (g_pc = "done" /\ ~g_result.ok => g_result.msg \in Reasons)
  /\ \A p \in Calls :
       /\ call[p].c.exc \in TransportErrors \cup {"OSError"} => call[p].c.pc # "raised"
       /\ (Failed(call[p].c) => call[p].c.result.msg \in Reasons)

\* C3: in get_request a response with a status other than 200 is not retried:
\* the call has returned (False, error with that status) after the one GET
\* that got a response, and no sleep, probe or GET follows that response.
C3_StatusNotRetried ==
  g_status \notin {0, 200} =>
    /\ g_pc = "done"
    /\ g_result = [ok |-> FALSE, msg |-> MSG_STATUS, code |-> g_status, body |-> ""]
    /\ g_resps = 1
    /\ g_after = 0
    /\ g_sleeps = g_fails

C3_Witness ==
  /\ g_status = 500
  /\ g_result.code = 500
  /\ g_fails = 2
  /\ g_max = 3

\* C4: get_request makes at most max_attempts + 1 GETs; a call that returns
\* after at most max_attempts connection errors, with the prober connected,
\* returns on a response, with the body when the status is 200; 'max attempts
\* exceeded' is returned after exactly max_attempts + 1 GETs that all failed
\* with a connection error.
C4_RetryBudget ==
  /\ g_gets <= g_max + 1
  /\ (g_pc = "done" /\ g_fails <= g_max /\ ~g_disc => g_resps = 1)
  /\ (g_status = 200 =>
        g_result = [ok |-> TRUE, msg |-> "", code |-> 200, body |-> g_body])
  /\ (g_result.msg = MSG_MAX_ATTEMPTS =>
        g_pc = "done" /\ g_gets = g_max + 1 /\ g_fails = g_max + 1 /\ g_resps = 0)

C4_Witness ==
  /\ g_max = 3
  /\ g_fails = 3
  /\ g_result.ok
  /\ g_result.body = "xml"

\* C5: in get_request the prober is called before every GET, and a probe that
\* reports "not connected" ends the call at once with 'connection
\* interrupted': no GET in that iteration, no sleep, attempt not incremented,
\* nothing afterwards.
C5_ProbeGatesEveryGet ==
  /\ g_probes = (IF g_pc = "get" \/ g_disc THEN g_gets + 1 ELSE g_gets)
  /\ (g_disc =>
        /\ g_pc = "done"
        /\ g_result = [ok |-> FALSE, msg |-> MSG_INTERRUPTED, code |-> 0, body |-> ""]
        /\ g_attempt = g_fails
        /\ g_sleeps = g_fails
        /\ g_resps = 0)

C5_Witness ==
  /\ g_disc
  /\ g_pc = "done"
  /\ g_fails = 2
  /\ g_max = 3

\* C6 as stated: a download_file call whose cancel predicate is true before
\* any chunk is read ends with 'download cancelled' and nothing written, for
\* every non-404 response body of any number of chunks (runs without
\* transport or I/O error).
C6_AsStated ==
  \A p \in Calls :
    LET c == call[p].c
    IN Returned(c) /\ c.status \notin {0, 404} /\ c.early /\ c.exc = "none" =>
         /\ c.result = [ok |-> FALSE, msg |-> MSG_CANCELLED, path |-> <<>>]
         /\ Count(c.log, "write") = 0

\* C6 amended: with a cancel predicate that is true before any chunk is read,
\* and no transport or I/O error, a non-404 response that delivers at least
\* one chunk ends with 'download cancelled' at the first chunk: one poll,
\* nothing written, no file left; a body without chunks is never polled and
\* gives (True, path) with an empty file.
C6_CancelledAtFirstChunk ==
  \A p \in Calls :
    LET c == call[p].c
    IN Returned(c) /\ c.status \notin {0, 404} /\ c.early /\ c.exc = "none" =>
         IF c.delivered >= 1
           THEN /\ c.result = [ok |-> FALSE, msg |-> MSG_CANCELLED, path |-> <<>>]
                /\ c.delivered = 1
                /\ Count(c.log, "poll") = 1
                /\ Count(c.log, "write") = 0
                /\ c.downloaded = 0
                /\ ~Exists(c.path)
           ELSE /\ c.result = [ok |-> TRUE, msg |-> "", path |-> c.path]
                /\ Count(c.log, "poll") = 0
                /\ Exists(c.path)
                /\ data[fs[c.path]] = <<>>

C6_Witness ==
  LET c == call[1].c
  IN /\ Returned(c)
     /\ c.status = 200
     /\ c.early
     /\ c.exc = "none"
     /\ c.delivered = 1
     /\ c.result.msg = MSG_CANCELLED

\* C7: when the streamed GET answers 404, download_file returns (False,
\* 'file does not exist') and the file system is as it was before the call:
\* no file created, truncated or deleted, no directory created; the call did
\* nothing but the GET.
C7_NotFoundTouchesNothing ==
  \A p \in Calls :
    LET c == call[p].c
    IN c.status = 404 =>
         /\ Returned(c)
         /\ c.result = [ok |-> FALSE, msg |-> MSG_NOT_FOUND, path |-> <<>>]
         /\ c.log = <<"get">>
         /\ Snapshot = call[p].snap

C7_Witness ==
  LET c == call[1].c
  IN /\ c.status = 404
     /\ Returned(c)
     /\ Exists(c.path)
     /\ data[fs[c.path]] = <<OldChunk>>

\* the chunks that call p has received, in order
OwnContent(p) == [k \in 1..call[p].c.delivered |-> <<p, k>>]

HasOwnFile(p) ==
  /\ Exists(call[p].c.path)
  /\ data[fs[call[p].c.path]] = OwnContent(p)

ReturnsPath(p) ==
  /\ call[p].c.pc # "done"
  /\ call'[p].c.pc = "done"
  /\ call'[p].c.result.ok

\* C8 as stated: for any download_file calls running concurrently, a call
\* that returns (True, path) has its own fully-written file at that path when
\* it returns.
C8_AsStated ==
  [][\A p \in Calls : ReturnsPath(p) => HasOwnFile(p)']_vars

\* C8 amended: for download_file calls running concurrently on pairwise
\* different destination paths, no two calls write through the same file, and
\* a call that returns (True, path) has its own fully-written file at that
\* path when it returns.  (Calls on the same path are not kept apart.)
C8_OwnFileOnOwnPath ==
  /\ [](\A p, q \in Calls :
          /\ p # q
          /\ Active(call[p].c) /\ call[p].c.handle # 0
          /\ Active(call[q].c) /\ call[q].c.handle # 0
          /\ call[p].c.path # call[q].c.path
          => call[p].c.handle # call[q].c.handle)
  /\ [][\A p \in Calls : ReturnsPath(p) /\ ~call'[p].shared => HasOwnFile(p)']_vars

C8_Witness ==
  /\ \A p \in Calls :
       /\ Returned(call[p].c)
       /\ call[p].c.result.ok
       /\ call[p].together
       /\ ~call[p].shared
       /\ call[p].c.delivered >= 1
       /\ HasOwnFile(p)
  /\ call[1].c.path # call[2].c.path

EndsWithZip(name) == Len(name) > 0 /\ name[Len(name)] = ".zip"

LastSegment(url) == url[Len(url)]

\* C9 as stated: for every URL with a '?', the file name that
\* _generate_filename returns ends with '.zip' and has no '='.
C9_AsStated ==
  n_pc = "done" /\ n_name.ok /\ InUrl("?", n_url) =>
    /\ EndsWithZip(n_name.name)
    /\ ~InStr("=", n_name.name)

\* C9 amended: when the last segment of the URL has a '?', the file name
\* returned ends with '.zip', what comes from the query has no '=', and the
\* name has an '=' only if segment 4, 5 or 6 of the URL, which some rules
\* copy into the name, has one.  When the last segment has no '?', the name
\* ends with that segment as it is, whatever '?' the URL has elsewhere.
C9_QueryInLastSegment ==
  n_pc = "done" /\ n_name.ok =>
    LET name == n_name.name
        last == LastSegment(n_url)
        tail == Len(last) - (CHOOSE i \in 1..Len(last) :
                               last[i] = "?" /\ \A j \in (i + 1)..Len(last) : last[j] # "?")
    IN IF InStr("?", last)
         THEN /\ EndsWithZip(name)
              /\ Len(name) >= tail + 1
              /\ ~InStr("=", SubSeq(name, Len(name) - tail, Len(name)))
              /\ (InStr("=", name) =>
                    \E i \in {5, 6, 7} : i <= Len(n_url) /\ InStr("=", n_url[i]))
         ELSE /\ Len(name) >= Len(last)
              /\ SubSeq(name, Len(name) - Len(last) + 1, Len(name)) = last

C9_Witness ==
  /\ n_pc = "done"
  /\ n_name.ok
  /\ Len(n_url) = 9
  /\ InStr("?", LastSegment(n_url))
  /\ InStr("=", LastSegment(n_url))
  /\ InUrl("PRG", n_url)
  /\ EndsWithZip(n_name.name)
  /\ ~InStr("=", n_name.name)

RuleKeywords ==
  {"Budynki3D", "PRG", "bdot10k", "Archiwum", "bdoo", "ZestawieniaZbiorczeEGiB", "osnowa"}

\* the fixed prefix of each rule
PrefixesOf(k) ==
  CASE k = "Budynki3D" -> {"Budynki_3D_LOD1_", "Budynki_3D_LOD2_"}
    [] k = "PRG" -> {"PRG_"}
    [] k = "bdot10k" -> {"bdot10k_"}
    [] k = "Archiwum" -> {"archiwalne_bdot10k_"}
    [] k = "bdoo" -> {"bdoo_"}
    [] k = "ZestawieniaZbiorczeEGiB" -> {"ZestawieniaZbiorczeEGiB_"}
    [] k = "osnowa" -> {"podstawowa_osnowa_"}

AllPrefixes == UNION {PrefixesOf(k) : k \in RuleKeywords}

StartsWith(name, prefix) ==
  Len(name) >= Len(prefix) /\ SubSeq(name, 1, Len(prefix)) = prefix

\* C10 as stated: a URL with exactly one of the rule substrings gets a file
\* name that starts with the prefix of that rule, and a URL with 'bdot10k'
\* and 'Archiwum' (and no rule of higher priority) the prefix
\* 'archiwalne_bdot10k_'.
C10_AsStated ==
  n_pc = "done" /\ n_name.ok =>
    LET name == n_name.name
        present == {k \in RuleKeywords : InUrl(k, n_url)}
    IN /\ (Cardinality(present) = 1 =>
             \A k \in present : Len(name) > 0 /\ name[1] \in PrefixesOf(k))
       /\ (present = {"bdot10k", "Archiwum"} => StartsWith(name, <<"archiwalne_bdot10k_">>))

\* C10 amended: whenever _generate_filename returns, the name has the prefix
\* of the first rule that applies, in the order Budynki3D, PRG, bdot10k (with
\* or without Archiwum), bdoo, ZestawieniaZbiorczeEGiB, osnowa, and of no
\* other rule: 'Archiwum' without 'bdot10k' is no rule, 'Budynki3D' gives a
\* prefix only with 'LOD1' or 'LOD2' (after segment 6 and '_' when the URL
\* has 9 segments), and 'bdot10k' with 'Archiwum' gives 'archiwalne_bdot10k_'
\* and segment 5, not 'bdot10k_'.
C10_FirstRuleOnly ==
  n_pc = "done" /\ n_name.ok =>
    LET name == n_name.name
        url == n_url
        B == InUrl("Budynki3D", url)
        P == InUrl("PRG", url)
        D == InUrl("bdot10k", url)
        A == InUrl("Archiwum", url)
        O == InUrl("bdoo", url)
        Z == InUrl("ZestawieniaZbiorczeEGiB", url)
        S == InUrl("osnowa", url)
        prefixes == {i \in 1..Len(name) : name[i] \in AllPrefixes}
        front == IF Len(url) = 9 THEN url[7] \o <<"_">> ELSE <<>>
    IN /\ Cardinality(prefixes) <= 1
       /\ (B /\ InUrl("LOD1", url) => StartsWith(name, front \o <<"Budynki_3D_LOD1_">>))
       /\ (B /\ ~InUrl("LOD1", url) /\ InUrl("LOD2", url) =>
             StartsWith(name, front \o <<"Budynki_3D_LOD2_">>))
       /\ (B /\ ~InUrl("LOD1", url) /\ ~InUrl("LOD2", url) =>
             StartsWith(name, front) /\ prefixes = {})
       /\ (~B /\ P => StartsWith(name, <<"PRG_">>))
       /\ (~B /\ ~P /\ D /\ ~A => StartsWith(name, <<"bdot10k_">>))
       /\ (~B /\ ~P /\ D /\ A =>
             /\ Len(url) >= 6
             /\ StartsWith(name, <<"archiwalne_bdot10k_">> \o url[6] \o <<"_">>))
       /\ (~B /\ ~P /\ ~D /\ O =>
             /\ Len(url) >= 5
             /\ StartsWith(name, <<"bdoo_", "rok">> \o url[5] \o <<"_">>))
       /\ (~B /\ ~P /\ ~D /\ ~O /\ Z =>
             /\ Len(url) >= 5
             /\ StartsWith(name, <<"ZestawieniaZbiorczeEGiB_", "rok">> \o url[5] \o <<"_">>))
       /\ (~B /\ ~P /\ ~D /\ ~O /\ ~Z /\ S => StartsWith(name, <<"podstawowa_osnowa_">>))
       /\ (~B /\ ~P /\ ~D /\ ~O /\ ~Z /\ ~S => prefixes = {} /\ name = Baseline(url))

C10_Witness ==
  /\ n_pc = "done"
  /\ n_name.ok
  /\ InUrl("bdot10k", n_url)
  /\ InUrl("Archiwum", n_url)
  /\ Len(n_url) = 6
  /\ StartsWith(n_name.name, <<"archiwalne_bdot10k_">> \o n_url[6])

\* C11: _generate_filename is total: for every URL, with any number of path
\* segments and any combination of the rule substrings, it returns a filename
\* and never fails.
C11_NeverFails == n_pc = "done" => n_name.ok

\* the index at which v occurs first in s
FirstIndex(s, v) == CHOOSE i \in 1..Len(s) : s[i] = v /\ \A j \in 1..(i - 1) : s[j] # v

\* the non-empty Name values that the query of get_wms_layers finds for the
\* Layer elements of a document
FoundNames(root) ==
  {v \in Texts \ {""} :
     \E i \in 1..Len(root.layers) :
       LET l == root.layers[i]
       IN IF root.ns THEN l.cap /\ v \in Range(l.names)
          ELSE l.names # <<>> /\ l.names[1] = v}

C13_NeverRaises ==
  /\ (w_pc # "call" /\ g_pc = "done" /\ (~g_result.ok \/ g_result.body = "") =>
        w_pc = "done" /\ w_layers = <<>>)
  /\ (w_parse \in {"none", "raise"} => w_pc # "raised")
  /\ (w_parse \in {"none", "raise"} /\ w_pc = "done" => w_layers = <<>>)

\* the state of a download_file call in the words of the state machine
DlState(c) ==
  CASE c.pc = "idle" -> "INIT"
    [] c.pc = "get" -> "FETCHING"
    [] c.pc = "raised" -> "RAISED"
    [] c.pc = "done" /\ c.result.ok -> "DONE"
    [] c.pc = "done" /\ c.result.msg = MSG_NOT_FOUND -> "NOT_FOUND"
    [] c.pc = "done" /\ c.result.msg = MSG_CANCELLED -> "CANCELLED"
    [] c.pc = "done" /\ c.result.msg = MSG_WRITE_ERROR -> "IO_ERROR"
    [] c.pc = "done" /\ c.result.msg = MSG_INTERRUPTED /\ c.site = "disc" -> "DISCONNECTED"
    [] c.pc = "done" /\ c.result.msg = MSG_INTERRUPTED /\ c.site # "disc" -> "TRANSPORT_ERROR"
    [] OTHER -> "STREAMING"

\* the last thing the call did was _cleanup_file at the place of its failure
CleanedUp(c) ==
  /\ c.site \in {"cancel", "disc", "handler"}
  /\ c.log # <<>>
  /\ c.log[Len(c.log)] \in {"exists", "remove"}

\* C14: in every terminal state of download_file other than DONE, that is
\* NOT_FOUND, CANCELLED, DISCONNECTED, TRANSPORT_ERROR and IO_ERROR, the
\* cleanup of the destination file has been performed before the call returns.
C14_CleanupInEveryFailure ==
  \A p \in Calls :
    DlState(call[p].c) \in {"NOT_FOUND", "CANCELLED", "DISCONNECTED",
                            "TRANSPORT_ERROR", "IO_ERROR"} =>
      CleanedUp(call[p].c)

IsPrefix(a, b) == Len(a) <= Len(b) /\ a = SubSeq(b, 1, Len(a))

\* the position in the log at which chunk k was read
ChunkAt(log, k) ==
  CHOOSE i \in 1..Len(log) : log[i] = "chunk" /\ Count(SubSeq(log, 1, i), "chunk") = k

\* what the call did from reading chunk k to reading the next chunk
Segment(log, k) ==
  LET from == ChunkAt(log, k) + 1
      to == IF k < Count(log, "chunk") THEN ChunkAt(log, k + 1) - 1 ELSE Len(log)
  IN SubSeq(log, from, to)

\* what the loop body does with chunk k when nothing stops it
ChunkBody(c, k) ==
  (IF c.cc # "none" THEN <<"poll">> ELSE <<>>)
    \o (IF ProbeDue((k - 1) * ChunkSize) THEN <<"probe">> ELSE <<>>)
    \o <<"write", "count">>
    \o (IF c.cb THEN <<"progress">> ELSE <<>>)

EndEvents == {"close", "exists", "remove"}

\* C15: for each chunk the loop polls the cancel predicate (if supplied)
\* once, then applies the probe rule, then writes the chunk, then increases
\* the byte counter, then calls the progress callback (if supplied); when the
\* predicate is true the stream is closed and the partial file deleted before
\* the cancelled outcome is returned, that chunk and the later ones are not
\* written and there is no further probe or progress call.
C15_ChunkOrder ==
  \A p \in Calls :
    LET c == call[p].c
        n == Count(c.log, "chunk")
    IN /\ \A k \in 1..n :
            LET seg == Segment(c.log, k)
                body == SelectSeq(seg, LAMBDA e : e \notin EndEvents)
                end == SelectSeq(seg, LAMBDA e : e \in EndEvents)
            IN /\ seg = body \o end
               /\ IsPrefix(body, ChunkBody(c, k))
               /\ (k < n => seg = ChunkBody(c, k))
               /\ (c.pc \in {"write", "iter"} /\ c.cc # "none" => Count(seg, "poll") = 1)
       /\ (DlState(c) = "CANCELLED" =>
             /\ n >= 1
             /\ Segment(c.log, n) = <<"poll", "close", "exists", "remove">>
             /\ ~Exists(c.path)
             /\ Count(c.log, "write") = n - 1
             /\ Count(c.log, "progress") = (IF c.cb THEN n - 1 ELSE 0)
             /\ Len(c.samples) = Count(c.log, "progress"))

C15_Witness ==
  LET c == call[1].c
  IN /\ DlState(c) = "CANCELLED"
     /\ c.cb
     /\ c.delivered = 2
     /\ Count(c.log, "write") = 1
     /\ Count(c.log, "probe") = 1
     /\ Count(c.log, "poll") = 2

\* C16: the prober is called before the first chunk and, for a body that
\* arrives in 8192-byte chunks, again each time another 10,000,000 bytes are
\* downloaded: between two of its calls no more than about 10,000,000 bytes
\* (the interval and one chunk) are written.
C16_ProbeEveryInterval == l_since <= ProbeInterval + ChunkSize

\* C17: when the content-length header is absent or cannot be parsed, the
\* total size is 0, the download goes on and every progress sample carries
\* the total 0.
C17_TotalDefaultsToZero ==
  \A p \in Calls :
    LET c == call[p].c
    IN c.status \notin {0, 404} /\ (~c.header.present \/ ~ContentLength(c.header).ok) =>
         /\ c.exc # "ValueError"
         /\ c.total = 0
         /\ \A i \in 1..Len(c.samples) : c.samples[i][2] = 0

\* C18: the downloaded counts of the progress samples never decrease, and
\* when download_file returns (True, path) the file at path holds the chunks
\* of the stream, all of them, in order, and nothing of an earlier file, and
\* the last progress sample's downloaded count is the length of the file.
C18_FileIsTheStream ==
  \A p \in Calls :
    LET c == call[p].c
    IN /\ \A i, j \in 1..Len(c.samples) : i < j => c.samples[i][1] <= c.samples[j][1]
       /\ (Returned(c) /\ c.result.ok =>
             /\ HasOwnFile(p)
             /\ c.log[Len(c.log)] = "close"
             /\ Count(c.log, "write") = c.delivered
             /\ c.downloaded = Len(data[fs[c.path]]) * ChunkSize
             /\ (c.cb => Len(c.samples) = c.delivered)
             /\ (c.cb /\ c.delivered > 0 =>
                   c.samples[Len(c.samples)][1] = Len(data[fs[c.path]]) * ChunkSize))

C18_Witness ==
  LET c == call[1].c
  IN /\ Returned(c)
     /\ c.result.ok
     /\ c.cb
     /\ c.delivered = 2
     /\ call[1].snap.fs[c.path] # 0
     /\ data[fs[c.path]] = <<<<1, 1>>, <<1, 2>>>>
     /\ c.samples = <<<<ChunkSize, c.total>>, <<2 * ChunkSize, c.total>>>>

\* C19: only the status 404 gives the file-missing outcome; on every other
\* status, 500 included, the call removes a file that is at the destination,
\* streams the body into the file and, with no cancellation, disconnect or
\* error, returns (True, path).
C19_Only404IsMissing ==
  \A p \in Calls :
    LET c == call[p].c
    IN /\ (DlState(c) = "NOT_FOUND" <=> Returned(c) /\ c.status = 404)
       /\ (Returned(c) /\ c.status \notin {0, 404} /\ c.exc = "none" /\ c.site = "pre" =>
             /\ c.result = [ok |-> TRUE, msg |-> "", path |-> c.path]
             /\ HasOwnFile(p)
             /\ (call[p].snap.fs[c.path] # 0 => fs[c.path] # call[p].snap.fs[c.path]))

C19_Witness ==
  LET c == call[1].c
  IN /\ Returned(c)
     /\ c.status = 500
     /\ c.result.ok
     /\ call[1].snap.fs[c.path] # 0
     /\ c.delivered >= 1
     /\ HasOwnFile(1)

\* the file that was at the path of call p when it started is still there
Survives(p) ==
  /\ call[p].c.path \in FileNames
  /\ call[p].snap.fs[call[p].c.path] # 0
  /\ fs[call[p].c.path] = call[p].snap.fs[call[p].c.path]
  /\ data[fs[call[p].c.path]] = call[p].snap.data[fs[call[p].c.path]]

\* C20: when the streamed GET fails with a connection error before any
\* response, download_file returns the 'connection interrupted' failure and a
\* file that was at the path is deleted; a file that was at the path survives
\* a failed call only when the failure is the 404 outcome, or comes before the
\* removal of that file with an error that is neither a connection error nor
\* a chunked-transfer error.
C20_SurvivesOnlyEarlyFailure ==
  \A p \in Calls :
    LET c == call[p].c
    IN /\ (Returned(c) /\ c.status = 0 /\ IsConnectionError(c.exc) =>
             /\ c.result = [ok |-> FALSE, msg |-> MSG_INTERRUPTED, path |-> <<>>]
             /\ ~Exists(c.path))
       /\ ((Failed(c) \/ c.pc = "raised") /\ Survives(p) =>
             \/ DlState(c) = "NOT_FOUND"
             \/ /\ Count(c.log, "remove") = 0
                /\ c.exc # "none"
                /\ ~IsConnectionError(c.exc)
                /\ ~IsChunkedEncodingError(c.exc))

C20_Witness ==
  LET c == call[1].c
  IN /\ Returned(c)
     /\ c.status = 0
     /\ c.exc = "ConnectionError"
     /\ call[1].snap.fs[c.path] # 0
     /\ ~Exists(c.path)
     /\ c.result.msg = MSG_INTERRUPTED

====
